---- MODULE Spec2Model ----
(***************************************************************************)
(* Model of src/main.rs: the joystick polling loop that moves a filled     *)
(* circle over an ST7789 display.  The hardware bring-up (lines 36-117) is *)
(* a straight line of unwrapped calls and is not modelled; the model       *)
(* starts after the second display.clear (line 126) and follows the loop   *)
(* of lines 128-169 statement by statement.  Every fallible call           *)
(* (is_low, draw) may return Err, in which case unwrap panics.             *)
(***************************************************************************)
EXTENDS Integers, Sequences, FiniteSets, TLC

\* ---------------------------------------------------------------- bounds
\* Number of loop iterations explored from a starting state.
MaxIter == 3
\* Half-width of the window of start positions taken next to each limit of
\* the i32 range (used by SpecFar only).
Near == 3

\* ------------------------------------------------------ program constants
DISPLAY_WIDTH == 240
DISPLAY_HEIGHT == 280
STEP == 2
I32_MAX == 2147483647
I32_MIN == -I32_MAX - 1
InI32(v) == v \in Int /\ I32_MIN <= v /\ v <= I32_MAX

VARIABLES
    pc,        \* position of main inside the loop
    x, y,      \* let mut x, y: i32
    old_x, old_y, \* let mut old_x, old_y
    calls,     \* draw calls the display received during this iteration
    visible,   \* top-left points of the accent circles on the panel that
               \* no background circle has been painted over
    last,      \* point of the most recent accent circle drawn, <<>> if none
    prev,      \* value of last at the head of this iteration
    erases,    \* number of erase primitives issued since startup
    inp,       \* levels sampled by is_low() in this iteration
    x0, y0,    \* position at the head of this iteration
    xw, yw,    \* number of assignments to x / y in this iteration
    failed,    \* some fallible call has returned Err
    iter       \* number of completed iterations

vars == <<pc, x, y, old_x, old_y, calls, visible, last, prev, erases, inp, x0,
          y0, xw, yw, failed, iter>>

NoInput == [down |-> FALSE, up |-> FALSE, right |-> FALSE, left |-> FALSE]
NoPoint == <<>>

\* ------------------------------------------------------------ arithmetic
\* i32::saturating_add / saturating_sub with a non-negative right operand.
\* The comparison is arranged so that no intermediate value leaves the i32
\* range.
WrappingAdd(a, b) ==
    IF a > I32_MAX - b THEN I32_MIN + (b - (I32_MAX - a) - 1) ELSE a + b
AddUnlessOverflow(a, b) == IF a > I32_MAX - b THEN a ELSE a + b
saturating_add(a, b) == IF a > I32_MAX - b THEN I32_MAX ELSE a + b

SubAsAdd(a, b) == saturating_add(a, b)
saturating_sub(a, b) == IF a < I32_MIN + b THEN I32_MIN ELSE a - b

\* Result::unwrap on the value of a fallible call: continue at `next` on
\* Ok, panic (panic_probe halts the core) on Err.
UnwrapIgnore(ok, next) == next
unwrap(ok, next) == IF ok THEN next ELSE "panic"

\* ------------------------------------------------------------------ init
\* State after line 126: position at the canvas midpoint, previous position
\* (0, 0), panel cleared to black.
Init ==
    /\ pc = "down"
    /\ x = DISPLAY_WIDTH \div 2
    /\ y = DISPLAY_HEIGHT \div 2
    /\ old_x = 0
    /\ old_y = 0
    /\ calls = <<>>
    /\ visible = {}
    /\ last = NoPoint
    /\ prev = NoPoint
    /\ erases = 0
    /\ inp = NoInput
    /\ x0 = x
    /\ y0 = y
    /\ xw = 0
    /\ yw = 0
    /\ failed = FALSE
    /\ iter = 0

\* Start positions next to the limits of the i32 range, and the midpoint.
NearLimits == {I32_MIN + k : k \in 0..Near} \cup {I32_MAX - k : k \in 0..Near}
FarX == NearLimits \cup {DISPLAY_WIDTH \div 2}
FarY == NearLimits \cup {DISPLAY_HEIGHT \div 2}

\* The loop head of a later iteration, after the joystick has been held long
\* enough to bring the position next to a limit: the sprite has been drawn
\* at (x, y) and the previous position has caught up with it.
InitFar ==
    /\ pc = "down"
    /\ x \in FarX
    /\ y \in FarY
    /\ <<x, y>> # <<DISPLAY_WIDTH \div 2, DISPLAY_HEIGHT \div 2>>
    /\ old_x = x
    /\ old_y = y
    /\ calls = <<>>
    /\ visible = {<<x, y>>}
    /\ last = <<x, y>>
    /\ prev = <<x, y>>
    /\ erases = 1
    /\ inp = NoInput
    /\ x0 = x
    /\ y0 = y
    /\ xw = 0
    /\ yw = 0
    /\ failed = FALSE
    /\ iter = 1

\* ----------------------------------------------------------------- steps
\* Lines 130-132: if joystick_down.is_low().unwrap() { y = y.saturating_add(2) }
ReadDown ==
    /\ pc = "down"
    /\ \E ok \in BOOLEAN, low \in BOOLEAN :
        /\ pc' = unwrap(ok, "up")
        /\ failed' = (failed \/ ~ok)
        /\ IF ok /\ low
             THEN /\ y' = saturating_add(y, STEP)
                  /\ yw' = yw + 1
                  /\ inp' = [inp EXCEPT !.down = TRUE]
             ELSE UNCHANGED <<y, yw, inp>>
    /\ UNCHANGED <<x, old_x, old_y, calls, visible, last, prev, erases, x0, y0, xw,
                   iter>>

\* Lines 134-136: if joystick_up.is_low().unwrap() { y = y.saturating_sub(2) }
ReadUp ==
    /\ pc = "up"
    /\ \E ok \in BOOLEAN, low \in BOOLEAN :
        /\ pc' = unwrap(ok, "right")
        /\ failed' = (failed \/ ~ok)
        /\ IF ok /\ low
             THEN /\ y' = saturating_sub(y, STEP)
                  /\ yw' = yw + 1
                  /\ inp' = [inp EXCEPT !.up = TRUE]
             ELSE UNCHANGED <<y, yw, inp>>
    /\ UNCHANGED <<x, old_x, old_y, calls, visible, last, prev, erases, x0, y0, xw,
                   iter>>

\* Lines 138-140: if joystick_right.is_low().unwrap() { x = x.saturating_add(2) }
ReadRight ==
    /\ pc = "right"
    /\ \E ok \in BOOLEAN, low \in BOOLEAN :
        /\ pc' = unwrap(ok, "left")
        /\ failed' = (failed \/ ~ok)
        /\ IF ok /\ low
             THEN /\ x' = saturating_add(x, STEP)
                  /\ xw' = xw + 1
                  /\ inp' = [inp EXCEPT !.right = TRUE]
             ELSE UNCHANGED <<x, xw, inp>>
    /\ UNCHANGED <<y, old_x, old_y, calls, visible, last, prev, erases, x0, y0, yw,
                   iter>>

\* Lines 142-144: if joystick_left.is_low().unwrap() { x = x.saturating_sub(2) }
ReadLeft ==
    /\ pc = "left"
    /\ \E ok \in BOOLEAN, low \in BOOLEAN :
        /\ pc' = unwrap(ok, "cmp")
        /\ failed' = (failed \/ ~ok)
        /\ IF ok /\ low
             THEN /\ x' = saturating_sub(x, STEP)
                  /\ xw' = xw + 1
                  /\ inp' = [inp EXCEPT !.left = TRUE]
             ELSE UNCHANGED <<x, xw, inp>>
    /\ UNCHANGED <<y, old_x, old_y, calls, visible, last, prev, erases, x0, y0, yw,
                   iter>>

\* Line 146: if x != old_x || y != old_y { ... }
CompareAlways ==
    /\ pc = "cmp"
    /\ pc' = "erase"
    /\ UNCHANGED <<x, y, old_x, old_y, calls, visible, last, prev, erases, inp,
                   x0, y0, xw, yw, failed, iter>>
Compare ==
    /\ pc = "cmp"
    /\ pc' = IF x # old_x \/ y # old_y THEN "erase" ELSE "sleep"
    /\ UNCHANGED <<x, y, old_x, old_y, calls, visible, last, prev, erases, inp,
                   x0, y0, xw, yw, failed, iter>>

\* Lines 148-153: a BLACK circle at Point::new(old_x, old_y), drawn and
\* unwrapped.  A transfer that fails may or may not have reached the panel.
EraseAt(px, py) ==
    /\ pc = "erase"
    /\ \E ok \in BOOLEAN, painted \in BOOLEAN :
        /\ ok => painted
        /\ pc' = unwrap(ok, "draw")
        /\ failed' = (failed \/ ~ok)
        /\ calls' = Append(calls, [color |-> "BLACK", at |-> <<px, py>>])
        /\ visible' = IF painted THEN visible \ {<<px, py>>} ELSE visible
    /\ erases' = erases + 1
    /\ UNCHANGED <<x, y, old_x, old_y, last, prev, inp, x0, y0, xw, yw, iter>>
EraseNew == EraseAt(x, y)
EraseOld == EraseAt(old_x, old_y)

\* Lines 156-161: a MAGENTA circle at Point::new(x, y), drawn and unwrapped.
DrawAt(px, py) ==
    /\ pc = "draw"
    /\ \E ok \in BOOLEAN, painted \in BOOLEAN :
        /\ ok => painted
        /\ pc' = unwrap(ok, "update")
        /\ failed' = (failed \/ ~ok)
        /\ calls' = Append(calls, [color |-> "MAGENTA", at |-> <<px, py>>])
        /\ visible' = IF painted THEN visible \cup {<<px, py>>} ELSE visible
        /\ last' = IF painted THEN <<px, py>> ELSE last
    /\ UNCHANGED <<x, y, old_x, old_y, prev, erases, inp, x0, y0, xw, yw, iter>>
DrawStart == DrawAt(x0, y0)
DrawNew == DrawAt(x, y)

\* Lines 164-165: old_x = x; old_y = y;
UpdateSwapped ==
    /\ pc = "update"
    /\ pc' = "sleep"
    /\ old_x' = y
    /\ old_y' = x
    /\ UNCHANGED <<x, y, calls, visible, last, prev, erases, inp, x0, y0, xw,
                   yw, failed, iter>>
UpdateSkip ==
    /\ pc = "update"
    /\ pc' = "sleep"
    /\ UNCHANGED <<x, y, old_x, old_y, calls, visible, last, prev, erases, inp,
                   x0, y0, xw, yw, failed, iter>>
UpdateOld ==
    /\ pc = "update"
    /\ pc' = "sleep"
    /\ old_x' = x
    /\ old_y' = y
    /\ UNCHANGED <<x, y, calls, visible, last, prev, erases, inp, x0, y0, xw,
                   yw, failed, iter>>

\* Line 168: delay.delay_ms(50), then back to the loop head.  The
\* per-iteration records start afresh.
Sleep ==
    /\ pc = "sleep"
    /\ iter < MaxIter
    /\ pc' = "down"
    /\ iter' = iter + 1
    /\ calls' = <<>>
    /\ inp' = NoInput
    /\ x0' = x
    /\ y0' = y
    /\ xw' = 0
    /\ yw' = 0
    /\ prev' = last
    /\ UNCHANGED <<x, y, old_x, old_y, visible, last, erases, failed>>

Next ==
    \/ ReadDown
    \/ ReadUp
    \/ ReadRight
    \/ ReadLeft
    \/ Compare
    \/ EraseOld
    \/ DrawNew
    \/ UpdateOld
    \/ Sleep

Spec == Init /\ [][Next]_vars
SpecFar == InitFar /\ [][Next]_vars

\* ------------------------------------------------------------ vocabulary
Mid == <<DISPLAY_WIDTH \div 2, DISPLAY_HEIGHT \div 2>>
EraseCall(p) == [color |-> "BLACK", at |-> p]
DrawCall(p) == [color |-> "MAGENTA", at |-> p]
\* All four joystick pins have been read in this iteration.
Sampled == pc \in {"cmp", "erase", "draw", "update", "sleep"}
AtSleep == pc = "sleep"
FirstIteration == iter = 0
Moved == x # x0 \/ y # y0
Only(d) == inp = [NoInput EXCEPT ![d] = TRUE]
B2N(b) == IF b THEN 1 ELSE 0

\* ---------------------------------------------------------------- C1
\* C1 as stated: in every iteration, the first included, in which the
\* sampled inputs leave (x, y) where it was, the display receives no
\* erase and no draw call.
C1_NoNetChangeNoCall == (calls # <<>>) => Moved

\* C1 amended: in every iteration after the first, no net change of the
\* position means no display call; the first iteration always issues the
\* erase and the draw, whatever the inputs.
C1_ChangeGatedAfterFirst ==
    /\ (~FirstIteration /\ calls # <<>>) => Moved
    /\ (FirstIteration /\ AtSleep) => Len(calls) = 2

\* A later iteration with up and down both asserted, ending where it began,
\* with no display call.
C1_Witness ==
    /\ ~FirstIteration /\ AtSleep
    /\ inp.up /\ inp.down /\ ~Moved
    /\ calls = <<>>

\* ---------------------------------------------------------------- C2
\* C2 as stated: whatever inputs are held at startup, the first accent
\* circle the display receives is at the canvas midpoint (120, 140).
C2_FirstSpriteAtMidpoint ==
    (FirstIteration /\ Len(calls) = 2) => calls[2] = DrawCall(Mid)

\* C2 amended: nothing is rendered before the first sampling of the inputs;
\* the first accent circle is drawn in the first iteration at the midpoint
\* displaced by that iteration's steps, hence at (120, 140) exactly when no
\* net direction is asserted at startup.
C2_FirstSpriteAfterSampling ==
    /\ (FirstIteration /\ Len(calls) < 2) => (last = NoPoint /\ visible = {})
    /\ (FirstIteration /\ Len(calls) = 2) =>
          calls[2] = DrawCall(<<Mid[1] + STEP * (B2N(inp.right) - B2N(inp.left)),
                                Mid[2] + STEP * (B2N(inp.down) - B2N(inp.up))>>)
    /\ (FirstIteration /\ AtSleep) => Len(calls) = 2
    /\ ~FirstIteration => last # NoPoint

\* The first accent circle drawn two units below the midpoint, down being
\* held at startup.
C2_Witness ==
    /\ FirstIteration /\ Only("down")
    /\ Len(calls) = 2 /\ calls[2] = DrawCall(<<Mid[1], Mid[2] + STEP>>)

\* ---------------------------------------------------------------- C3
\* C3 as stated: every iteration that changes the position, the first
\* included, issues exactly one erase at the point of the previously
\* rendered sprite and then exactly one draw at the new position.
C3_EraseAtPreviousSprite ==
    (AtSleep /\ Moved) => calls = <<EraseCall(prev), DrawCall(<<x, y>>)>>

\* C3 amended: the erase always precedes the draw and nothing comes between
\* them; in every iteration after the first that changes the position the
\* erase is at the point of the previously rendered sprite and the draw at
\* the new position; in the first iteration no sprite has been rendered and
\* the erase is at (0, 0).
C3_EraseBeforeDraw ==
    /\ Len(calls) <= 2
    /\ \A i \in 1..Len(calls) :
          calls[i].color = (IF i = 1 THEN "BLACK" ELSE "MAGENTA")
    /\ (AtSleep /\ Moved /\ ~FirstIteration) =>
          calls = <<EraseCall(prev), DrawCall(<<x, y>>)>>
    /\ (AtSleep /\ FirstIteration) =>
          (prev = NoPoint /\ calls = <<EraseCall(<<0, 0>>), DrawCall(<<x, y>>)>>)

\* A later iteration that moved the sprite and repainted it: erase at the
\* old sprite, draw at the new position.
C3_Witness ==
    /\ AtSleep /\ Moved /\ ~FirstIteration
    /\ prev = <<x0, y0>>
    /\ calls = <<EraseCall(<<x0, y0>>), DrawCall(<<x, y>>)>>

\* ---------------------------------------------------------------- C4
\* C4 as stated: at every reachable position, an iteration with exactly one
\* direction asserted moves that axis by exactly 2 and leaves the other
\* axis alone.
C4_StepIsTwo ==
    Sampled =>
       /\ Only("down") => (x = x0 /\ y - y0 = STEP)
       /\ Only("up") => (x = x0 /\ y0 - y = STEP)
       /\ Only("right") => (y = y0 /\ x - x0 = STEP)
       /\ Only("left") => (y = y0 /\ x0 - x = STEP)

\* C4 amended: with exactly one direction asserted the other axis is left
\* alone and the axis moves by exactly 2 when it is at least 2 away from the
\* limit it moves towards; closer than that, it ends on the limit.
C4_StepIsTwoOrLimit ==
    Sampled =>
       /\ Only("down") =>
            (x = x0 /\ IF y0 <= I32_MAX - STEP THEN y - y0 = STEP ELSE y = I32_MAX)
       /\ Only("up") =>
            (x = x0 /\ IF y0 >= I32_MIN + STEP THEN y0 - y = STEP ELSE y = I32_MIN)
       /\ Only("right") =>
            (y = y0 /\ IF x0 <= I32_MAX - STEP THEN x - x0 = STEP ELSE x = I32_MAX)
       /\ Only("left") =>
            (y = y0 /\ IF x0 >= I32_MIN + STEP THEN x0 - x = STEP ELSE x = I32_MIN)

\* Down alone, one unit below the upper limit: y moves by one, onto the
\* limit.
C4_Witness ==
    Sampled /\ Only("down") /\ y0 = I32_MAX - 1 /\ y = I32_MAX /\ x = x0

\* ---------------------------------------------------------------- C5
\* C5 as stated: with up and down both asserted y ends the iteration where
\* it began, and with left and right both asserted so does x, also next to
\* the limits of the i32 range.
C5_OpposingCancel ==
    Sampled =>
       /\ (inp.up /\ inp.down) => y = y0
       /\ (inp.left /\ inp.right) => x = x0

\* C5 amended: opposing inputs cancel when the axis is at most I32_MAX - 2;
\* above that the add saturates first and the axis ends at I32_MAX - 2.
\* The lower limit does not disturb the cancellation.
C5_OpposingCancelBelowMax ==
    Sampled =>
       /\ (inp.up /\ inp.down) =>
            y = (IF y0 > I32_MAX - STEP THEN I32_MAX - STEP ELSE y0)
       /\ (inp.left /\ inp.right) =>
            x = (IF x0 > I32_MAX - STEP THEN I32_MAX - STEP ELSE x0)

\* Up and down together one unit below the upper limit: y drops by one.
C5_Witness ==
    Sampled /\ inp.up /\ inp.down /\ y0 = I32_MAX - 1 /\ y = I32_MAX - STEP

\* ---------------------------------------------------------------- C6
\* C6: x and y stay in the i32 range and never wrap: an add applied within
\* 2 of the upper limit yields the upper limit, a subtract applied within 2
\* of the lower limit yields the lower limit, and over an iteration a
\* coordinate further than 2 from zero keeps its sign.
C6_SaturatingMotion ==
    /\ InI32(x) /\ InI32(y)
    /\ (pc = "up" /\ inp.down /\ y0 > I32_MAX - STEP) => y = I32_MAX
    /\ (pc = "right" /\ inp.up /\ ~inp.down /\ y0 < I32_MIN + STEP) => y = I32_MIN
    /\ (pc = "left" /\ inp.right /\ x0 > I32_MAX - STEP) => x = I32_MAX
    /\ (pc = "cmp" /\ inp.left /\ ~inp.right /\ x0 < I32_MIN + STEP) => x = I32_MIN
    /\ (x0 > STEP => x > 0) /\ (x0 < -STEP => x < 0)
    /\ (y0 > STEP => y > 0) /\ (y0 < -STEP => y < 0)

\* Right asserted one unit below the upper limit: x is on the limit.
C6_Witness ==
    pc = "left" /\ inp.right /\ x0 = I32_MAX - 1 /\ x = I32_MAX

\* ---------------------------------------------------------------- C7
\* C7: once a fallible call has failed the program is stopped in the panic:
\* the failing call changes neither the position nor the previous position,
\* and afterwards no display call is issued and no variable of the program
\* changes; in particular a failed erase is never followed by the draw.
C7_FatalErrors ==
    /\ [](failed => pc = "panic")
    /\ [][(failed' /\ ~failed) => UNCHANGED <<x, y, old_x, old_y>>]_vars
    /\ [][failed => UNCHANGED <<pc, x, y, old_x, old_y, calls, visible, last,
                                erases>>]_vars

\* The erase has failed: the program is in the panic with the erase as the
\* only display call of the iteration.
C7_Witness ==
    failed /\ pc = "panic" /\ Len(calls) = 1 /\ calls[1].color = "BLACK"

\* ---------------------------------------------------------------- C8
\* C8 as stated: in every iteration each axis is assigned at most once and
\* the change of each coordinate is -2, 0 or +2.
C8_AtMostOnePerAxis ==
    Sampled =>
       /\ xw <= 1 /\ yw <= 1
       /\ (x - x0) \in {-STEP, 0, STEP}
       /\ (y - y0) \in {-STEP, 0, STEP}

\* C8 amended: each axis is assigned once per asserted direction, hence up
\* to twice when opposing directions are asserted together; the change of
\* each coordinate over an iteration lies in -2..2 and is exactly -2, 0 or
\* +2 when the coordinate starts at least 2 away from both limits.
C8_OncePerDirection ==
    Sampled =>
       /\ xw = B2N(inp.left) + B2N(inp.right)
       /\ yw = B2N(inp.up) + B2N(inp.down)
       /\ (x - x0) \in (-STEP)..STEP
       /\ (y - y0) \in (-STEP)..STEP
       /\ (x0 >= I32_MIN + STEP /\ x0 <= I32_MAX - STEP) =>
             (x - x0) \in {-STEP, 0, STEP}
       /\ (y0 >= I32_MIN + STEP /\ y0 <= I32_MAX - STEP) =>
             (y - y0) \in {-STEP, 0, STEP}

\* Up and down together: y is assigned twice in one iteration.
C8_Witness ==
    Sampled /\ inp.up /\ inp.down /\ yw = 2 /\ y = y0

\* ---------------------------------------------------------------- C9
\* C9: the previous position is assigned only by the update that follows a
\* successful erase and a successful draw of the same iteration, and it is
\* set to the current position; so at every end-of-iteration sleep the
\* previous position equals the current position.
C9_OldUpdatedOnlyOnRedraw ==
    /\ [][(old_x' # old_x \/ old_y' # old_y) =>
            /\ pc = "update" /\ ~failed
            /\ calls = <<EraseCall(<<old_x, old_y>>), DrawCall(<<x, y>>)>>
            /\ old_x' = x /\ old_y' = y /\ calls' = calls]_vars
    /\ [](AtSleep => (old_x = x /\ old_y = y))

\* The sleep of a later iteration that repainted the sprite.
C9_Witness ==
    AtSleep /\ ~FirstIteration /\ Len(calls) = 2 /\ old_x = x /\ old_y = y

\* ---------------------------------------------------------------- C10
\* C10: at every end-of-iteration sleep the panel shows exactly one accent
\* circle, at (x, y); the first erase is at (0, 0) while no sprite has been
\* drawn, and every later erase is at the most recently drawn accent circle.
C10_SingleVisibleSprite ==
    /\ AtSleep => visible = {<<x, y>>}
    /\ Len(calls) = 1 =>
          IF erases = 1
             THEN calls[1].at = <<0, 0>> /\ last = NoPoint
             ELSE calls[1].at = last

\* A later erase has just been issued at the sprite drawn before.
C10_Witness ==
    /\ pc = "draw" /\ erases = 2
    /\ calls = <<EraseCall(last)>> /\ visible = {}

TypeOK ==
    /\ pc \in {"down", "up", "right", "left", "cmp", "erase", "draw",
               "update", "sleep", "panic"}
    /\ InI32(x) /\ InI32(y) /\ InI32(old_x) /\ InI32(old_y)
    /\ Len(calls) <= 2
    /\ failed \in BOOLEAN
====
